---------------------------- MODULE Spec2Model ----------------------------
(***************************************************************************)
(* gamehappy: the Animation frame state machine                            *)
(* (src/materials/graphics.py) and the Entity/Component binding and        *)
(* dispatch model (src/game_objects.py).                                   *)
(*                                                                         *)
(* Python's None is modelled as the empty sequence and an int k held in a  *)
(* field that may be None as the one-element sequence <<k>>.               *)
(***************************************************************************)
EXTENDS Integers, Sequences, FiniteSets, TLC

(* ------------------------------ bounds --------------------------------- *)

\* Longest frame-duration sequence an Animation is constructed with.
MaxFrames == 3

\* Largest single frame duration, in update cycles.
MaxDur == 2

\* Longest run of consecutive update() calls that is followed.
MaxTicks == MaxFrames * MaxDur + 1

\* Most components appended to one Entity's components list.
MaxComponents == 2

\* Widest Surface, in pixels.
MaxWidth == 4

\* Farthest a Graphic is moved from its entity, in pixels, either way.
MaxCoord == 2

\* Largest sprite sheet that magnify and resize are followed to.
MaxSheetWidth == MaxWidth

MaxSheetHeight == 2

(* ------------------------------ helpers -------------------------------- *)

None == << >>

Some(k) == << k >>

RECURSIVE SumSeq(_)
SumSeq(s) == IF s = << >> THEN 0 ELSE Head(s) + SumSeq(Tail(s))

\* The duration tuples *frame_durations an Animation may be constructed with.
DurationSeqs == UNION { [1..n -> 0..MaxDur] : n \in 1..MaxFrames }

\* The arguments hold_frame() is called with (negative: the sentinel).
HoldArgs == (-2)..(MaxFrames - 1)

(* ------------------------- Animation: state ---------------------------- *)

VARIABLES
    frame_durations,        \* Animation._frame_durations
    frame_index,            \* Animation._frame_index
    frame_counter,          \* Animation._frame_counter
    is_playing_backwards,   \* Animation._is_playing_backwards
    is_paused,              \* Animation._is_paused
    held_frame,             \* Animation._held_frame (None or Some(k))
    ticks,                  \* history: update() calls since the last other call
    start,                  \* history: the state that run of update() calls began in
    ever_armed,             \* history: hold_frame() has been called
    last_hit                \* history: the target matched by the latest call, if it
                            \*          was an update() that held a frame

animVars == << frame_durations, frame_index, frame_counter,
               is_playing_backwards, is_paused, held_frame,
               ticks, start, ever_armed, last_hit >>

(* ------------------- Entity / Component: state ------------------------- *)

VARIABLES
    components,     \* Entity.components, per entity: the list appended to
    attrs,          \* per entity: the attributes setattr() has put on it
    entity,         \* Component.entity, per component: None or Some(e)
    update_log,     \* the component.update calls made by the latest operation,
                    \* if it was Entity.update
    update_raised,  \* whether that Entity.update ended in a TypeError
    message_log,    \* the receive_message calls made by the latest operation,
                    \* if it was Entity.send_message
    message_raised  \* whether that send_message ended in NotImplementedError

entityVars == << components, attrs, entity, update_log, update_raised,
                message_log, message_raised >>

(* --------------------- sprite-sheet strips: state ---------------------- *)

VARIABLES
    strip,          \* the Surface handed to order_flipped_sprite_sheet
    ordered,        \* the Surface the latest call returned: None or Some(s)
    order_call      \* the latest call: its frame_width and the sheet as it
                    \* was handed over

stripVars == << strip, ordered, order_call >>

(* ---------------- Animation: sprite sheet and geometry ----------------- *)

VARIABLES
    source,         \* the Surface Animation.__init__ is given
    built,          \* "no": not constructed yet; "yes": constructed;
                    \* "raised": __init__ ended in ZeroDivisionError
    image,          \* Animation._image: None or Some(surface)
    rect_width,     \* Animation._rect.width: the width of one frame
    rect_height,    \* Animation._rect.height
    sheet_op,       \* the latest operation on the sheet and its argument
    flip_raised,    \* whether the latest flip ended in ZeroDivisionError
    returned        \* the Rect the latest call returned: None or Some(rect)

sheetVars == << source, built, image, rect_width, rect_height, sheet_op,
               flip_raised, returned >>

(* ------------------ Graphic: position on the screen ------------------- *)

VARIABLES
    entity_x,       \* Entity.x of the entity the Graphic is bound to
    entity_y,       \* Entity.y
    graphic_bound,  \* whether Graphic.entity is set
    rect_x,         \* Graphic._rect.x: the offset from the entity
    rect_y,         \* Graphic._rect.y
    drawn,          \* the Rect the latest call returned if it was draw_rect:
                    \* None or Some(rect)
    draw_raised,    \* whether that draw_rect ended in AttributeError
    graphic_op,     \* the latest call on the Graphic and its arguments
    center_call     \* the latest call if it was center: its arguments, the
                    \* positions before it and whether it ended in
                    \* AttributeError

graphicVars == << entity_x, entity_y, graphic_bound, rect_x, rect_y, drawn,
                 draw_raised, graphic_op, center_call >>

(* ------------- the earlier modules: entity.py and graphics.py ---------- *)

VARIABLES
    legacy_args,        \* entity.py: the arguments Entity(x, y, *components)
                        \* is called with
    legacy_made,        \* entity.py: "no": Component() not evaluated yet;
                        \* "yes": it returned; "raised": it ended in NameError
    legacy_built,       \* entity.py: the same for Entity(...), "raised" being
                        \* AttributeError
    legacy_components,  \* entity.py: Entity.components
    legacy_entity,      \* entity.py: Component.entity, per component
    legacy_rect,        \* graphics.py: Graphic._rect
    legacy_destination, \* graphics.py: the size of Graphic._destination
    legacy_query        \* graphics.py: the latest is_contained or is_outside
                        \* call and what it returned

legacyVars == << legacy_args, legacy_made, legacy_built, legacy_components,
                legacy_entity, legacy_rect, legacy_destination, legacy_query >>

vars == << animVars, entityVars, stripVars, sheetVars, graphicVars,
           legacyVars >>

(* ----------------------- Animation: operations ------------------------- *)

num_of_frames == Len(frame_durations)

\* Python sequences are 0-indexed.
DurationOf(i) == frame_durations[i + 1]


\* Variant: the frame changes only once the counter exceeds the duration.
FrameHasCompletedDuration_Exceeds(counter, index) == counter > DurationOf(index)

FrameHasCompletedDuration(counter, index) == counter >= DurationOf(index)


\* Variant: no loop back to the first frame.
SelectNextFrame_NoWrap(index) == index + 1

SelectNextFrame(index) ==
    IF index + 1 >= num_of_frames THEN 0 ELSE index + 1

SelectPreviousFrame(index) ==
    IF index - 1 < 0 THEN num_of_frames - 1 ELSE index - 1


\* Variant: an unset target counts as the last-frame sentinel.
CheckHeldFrame_NoneIsSentinel(index, held) ==
    \/ held = Some(index)
    \/ /\ index = num_of_frames - 1
       /\ (held = None \/ held[1] < 0)

\* Variant: any frame at or past the target is held.
CheckHeldFrame_AtOrAfter(index, held) ==
    \/ (held # None /\ held[1] >= 0 /\ index >= held[1])
    \/ /\ index = num_of_frames - 1
       /\ held # None
       /\ held[1] < 0

\* The condition under which _check_held_frame clears the target and pauses.
CheckHeldFrame(index, held) ==
    \/ held = Some(index)
    \/ /\ index = num_of_frames - 1
       /\ held # None
       /\ held[1] < 0

\* How the run of update() calls that begins in the state just reached is
\* classified: "fresh" is frame 0, counter 0, forward, unpaused, nothing armed.
StartClass(index, counter, backwards, paused, held) ==
    IF index = 0 /\ counter = 0 /\ ~backwards /\ ~paused
    THEN (IF held = None THEN "fresh" ELSE "armed")
    ELSE "other"

\* The fields Animation.__init__ sets besides _frame_durations.
AnimFieldsInit ==
    /\ frame_index = 0
    /\ frame_counter = 0
    /\ is_playing_backwards = FALSE
    /\ is_paused = FALSE
    /\ held_frame = None
    /\ ticks = 0
    /\ start = "fresh"
    /\ ever_armed = FALSE
    /\ last_hit = None

AnimInit ==
    /\ frame_durations \in DurationSeqs
    /\ AnimFieldsInit


\* Variant: a matched target stays armed.
HeldFrameAfterCheck_KeepsTarget(index, held) == held

\* _held_frame after _check_held_frame: a matched target is cleared.
HeldFrameAfterCheck(index, held) ==
    IF CheckHeldFrame(index, held) THEN None ELSE held

\* The body of update() that runs when the Animation is not paused.
Advance ==
    IF FrameHasCompletedDuration(frame_counter + 1, frame_index)
    THEN LET index == IF is_playing_backwards
                      THEN SelectPreviousFrame(frame_index)
                      ELSE SelectNextFrame(frame_index)
             hit == CheckHeldFrame(index, held_frame)
         IN  /\ frame_index' = index
             /\ frame_counter' = 0
             /\ held_frame' = HeldFrameAfterCheck(index, held_frame)
             \* pause() is called exactly where the target is cleared
             /\ is_paused' = hit
             /\ last_hit' = IF hit THEN held_frame ELSE None
    ELSE /\ frame_counter' = frame_counter + 1
         /\ last_hit' = None
         /\ UNCHANGED << frame_index, held_frame, is_paused >>


\* Variant: update() runs its body whether or not the Animation is paused.
Update_IgnoresPause ==
    /\ ticks < MaxTicks
    /\ ticks' = ticks + 1
    /\ UNCHANGED << entityVars, stripVars, legacyVars, sheetVars, graphicVars, frame_durations, is_playing_backwards,
                    start, ever_armed >>
    /\ Advance

Update ==
    /\ ticks < MaxTicks
    /\ ticks' = ticks + 1
    /\ UNCHANGED << entityVars, stripVars, legacyVars, sheetVars, graphicVars, frame_durations, is_playing_backwards,
                    start, ever_armed >>
    /\ IF ~is_paused
       THEN Advance
       ELSE /\ last_hit' = None
            /\ UNCHANGED << frame_index, frame_counter, held_frame, is_paused >>


\* Variant: pause() leaves the counter as it is.
Pause_KeepsCounter ==
    /\ frame_counter' = frame_counter
    /\ is_paused' = TRUE
    /\ ticks' = 0
    /\ start' = StartClass(frame_index, frame_counter, is_playing_backwards,
                           TRUE, held_frame)
    /\ last_hit' = None
    /\ UNCHANGED << entityVars, stripVars, legacyVars, sheetVars, graphicVars, frame_durations, frame_index, is_playing_backwards,
                    held_frame, ever_armed >>

Pause ==
    /\ frame_counter' = 0
    /\ is_paused' = TRUE
    /\ ticks' = 0
    /\ start' = StartClass(frame_index, 0, is_playing_backwards, TRUE, held_frame)
    /\ last_hit' = None
    /\ UNCHANGED << entityVars, stripVars, legacyVars, sheetVars, graphicVars, frame_durations, frame_index, is_playing_backwards,
                    held_frame, ever_armed >>


\* Variant: unpause() starts the current frame over.
Unpause_ResetsCounter ==
    /\ is_paused' = FALSE
    /\ frame_counter' = 0
    /\ ticks' = 0
    /\ start' = StartClass(frame_index, 0, is_playing_backwards, FALSE,
                           held_frame)
    /\ last_hit' = None
    /\ UNCHANGED << entityVars, stripVars, legacyVars, sheetVars, graphicVars, frame_durations, frame_index,
                    is_playing_backwards, held_frame, ever_armed >>

Unpause ==
    /\ is_paused' = FALSE
    /\ ticks' = 0
    /\ start' = StartClass(frame_index, frame_counter, is_playing_backwards,
                           FALSE, held_frame)
    /\ last_hit' = None
    /\ UNCHANGED << entityVars, stripVars, legacyVars, sheetVars, graphicVars, frame_durations, frame_index, frame_counter,
                    is_playing_backwards, held_frame, ever_armed >>

HoldFrame ==
    \E k \in HoldArgs :
        /\ held_frame' = Some(k)
        /\ ever_armed' = TRUE
        /\ ticks' = 0
        /\ start' = StartClass(frame_index, frame_counter, is_playing_backwards,
                               is_paused, Some(k))
        /\ last_hit' = None
        /\ UNCHANGED << entityVars, stripVars, legacyVars, sheetVars, graphicVars, frame_durations, frame_index, frame_counter,
                        is_playing_backwards, is_paused >>

EnableBackwardsPlayback ==
    \E enabled \in BOOLEAN :
        /\ is_playing_backwards' = enabled
        /\ ticks' = 0
        /\ start' = StartClass(frame_index, frame_counter, enabled,
                               is_paused, held_frame)
        /\ last_hit' = None
        /\ UNCHANGED << entityVars, stripVars, legacyVars, sheetVars, graphicVars, frame_durations, frame_index, frame_counter,
                        is_paused, held_frame, ever_armed >>


\* Variant: a change of direction starts the current frame over.
ToggleBackwardsPlayback_ResetsCounter ==
    /\ is_playing_backwards' = ~is_playing_backwards
    /\ frame_counter' = 0
    /\ ticks' = 0
    /\ start' = StartClass(frame_index, 0, ~is_playing_backwards,
                           is_paused, held_frame)
    /\ last_hit' = None
    /\ UNCHANGED << entityVars, stripVars, legacyVars, sheetVars, graphicVars, frame_durations, frame_index,
                    is_paused, held_frame, ever_armed >>

ToggleBackwardsPlayback ==
    /\ is_playing_backwards' = ~is_playing_backwards
    /\ ticks' = 0
    /\ start' = StartClass(frame_index, frame_counter, ~is_playing_backwards,
                           is_paused, held_frame)
    /\ last_hit' = None
    /\ UNCHANGED << entityVars, stripVars, legacyVars, sheetVars, graphicVars, frame_durations, frame_index, frame_counter,
                    is_paused, held_frame, ever_armed >>

(* ------------------- Entity / Component: operations -------------------- *)

Entities == { "e1", "e2" }

\* The component instances: a plain Component, two Graphics, an Animation and
\* an instance of a class derived from Animation that overrides nothing.
Comps == { "c1", "g1", "g2", "a1", "s1" }

ClassOf(c) ==
    CASE c = "c1" -> "Component"
      [] c \in { "g1", "g2" } -> "Graphic"
      [] c = "a1" -> "Animation"
      [] c = "s1" -> "AnimationSubclass"

\* class.__bases__[0].__name__
FirstBase(class) ==
    CASE class = "Component" -> "object"
      [] class = "Graphic" -> "Component"
      [] class = "Animation" -> "Graphic"
      [] class = "AnimationSubclass" -> "Animation"

\* The classes whose instances run Animation's methods: Animation and the
\* classes derived from it.
IsAnimationKind(class) == class \in { "Animation", "AnimationSubclass" }

\* str.lower() on the class names in use.
Lower(name) ==
    CASE name = "Component" -> "component"
      [] name = "Graphic" -> "graphic"
      [] name = "Animation" -> "animation"
      [] name = "AnimationSubclass" -> "animationsubclass"
      [] name = "object" -> "object"

AttrNames == { Lower(ClassOf(c)) : c \in Comps } \cup { Lower(FirstBase(ClassOf(c))) : c \in Comps }

\* The attribute name _add_self_as_attribute sets on the entity: Animation
\* overrides Component's method and uses the name of the first base class of
\* the instance's own class.
AttributeName(c) ==
    IF IsAnimationKind(ClassOf(c))
    THEN Lower(FirstBase(ClassOf(c)))
    ELSE Lower(ClassOf(c))

\* Variant: an attribute that is already set is left alone.
AddSelfAsAttribute_KeepsFirst(at, c) ==
    IF at[AttributeName(c)] = None
    THEN [ at EXCEPT ![AttributeName(c)] = Some(c) ]
    ELSE at

\* setattr(entity, name, self)
AddSelfAsAttribute(at, c) == [ at EXCEPT ![AttributeName(c)] = Some(c) ]

\* The state of the model's entities and components during add_component.
BindState(cs, at, en) == [ components |-> cs, attrs |-> at, entity |-> en ]

\* One iteration of add_component's loop: append, then bind_to_entity.
BindOne(st, e, c) ==
    BindState([ st.components EXCEPT ![e] = Append(@, c) ],
              [ st.attrs EXCEPT ![e] = AddSelfAsAttribute(@, c) ],
              [ st.entity EXCEPT ![c] = Some(e) ])

RECURSIVE BindAll(_, _, _)
BindAll(st, e, cs) ==
    IF cs = << >> THEN st ELSE BindAll(BindOne(st, e, Head(cs)), e, Tail(cs))

\* The argument tuples *components that add_component is called with.
ComponentArgs == UNION { [1..n -> Comps] : n \in 1..2 }

\* The elapsed times Entity.update is called with.
Times == { 1, 2 }

\* getargspec(component.update)[0]: the parameter names, the bound self included.
UpdateArgSpec(c) ==
    IF IsAnimationKind(ClassOf(c)) THEN << "self" >> ELSE << "self", "time" >>

ComponentTakesTimeArgument(c) == Len(UpdateArgSpec(c)) > 0

\* The arguments Entity.update passes to component.update.
UpdateCallArgs(c, time) ==
    IF ComponentTakesTimeArgument(c) THEN << time >> ELSE << >>

\* A call is accepted when it supplies every parameter after the bound self.
CallAccepted(c, args) == Len(args) = Len(UpdateArgSpec(c)) - 1

\* The calls Entity.update's loop makes over cs, up to the first that raises.
RECURSIVE UpdateCalls(_, _)
UpdateCalls(cs, time) ==
    IF cs = << >> THEN << >>
    ELSE LET c == Head(cs)
             call == << c, UpdateCallArgs(c, time) >>
         IN  IF CallAccepted(c, call[2])
             THEN << call >> \o UpdateCalls(Tail(cs), time)
             ELSE << call >>

\* The message types send_message is called with.
MessageTypes == { "enemy_collision" }

\* The tuples *details that send_message is called with.
DetailArgs == { << >>, << 1, 2, 3 >> }

\* The class whose receive_message a call on an instance of class resolves
\* to: neither Graphic nor Animation defines one, so all inherit Component's.
ReceiveMessageClass(class) ==
    CASE class = "Component" -> "Component"
      [] class = "Graphic" -> "Component"
      [] class = "Animation" -> "Component"
      [] class = "AnimationSubclass" -> "Component"

\* Component.receive_message raises NotImplementedError.
ReceiveMessageRaises(c) == ReceiveMessageClass(ClassOf(c)) = "Component"

\* The call send_message makes on c: the details tuple is passed as one
\* positional argument.
MessageCall(c, message_type, details) == << c, message_type, details >>

\* The calls send_message's loop makes over cs, up to the first that raises.
RECURSIVE MessageCalls(_, _, _)
MessageCalls(cs, message_type, details) ==
    IF cs = << >> THEN << >>
    ELSE LET call == MessageCall(Head(cs), message_type, details)
         IN  IF ReceiveMessageRaises(Head(cs))
             THEN << call >>
             ELSE << call >> \o MessageCalls(Tail(cs), message_type, details)

\* The logs when the latest operation was not the logged one.
NoUpdate == [ entity |-> None, time |-> None, calls |-> << >> ]

NoMessage == [ entity |-> None, type |-> None, details |-> << >>,
               calls |-> << >> ]

EntityInit ==
    /\ components = [ e \in Entities |-> << >> ]
    /\ attrs = [ e \in Entities |-> [ a \in AttrNames |-> None ] ]
    /\ entity = [ c \in Comps |-> None ]
    /\ update_log = NoUpdate
    /\ update_raised = FALSE
    /\ message_log = NoMessage
    /\ message_raised = FALSE

AddComponent ==
    \E e \in Entities, cs \in ComponentArgs :
        /\ Len(components[e]) + Len(cs) <= MaxComponents
        /\ LET st == BindAll(BindState(components, attrs, entity), e, cs)
           IN  /\ components' = st.components
               /\ attrs' = st.attrs
               /\ entity' = st.entity
        /\ update_log' = NoUpdate
        /\ update_raised' = FALSE
        /\ message_log' = NoMessage
        /\ message_raised' = FALSE
        /\ UNCHANGED << animVars, stripVars, legacyVars, sheetVars, graphicVars >>

EntityUpdate ==
    \E e \in Entities, time \in Times :
        LET calls == UpdateCalls(components[e], time)
        IN  /\ update_log' = [ entity |-> Some(e), time |-> Some(time),
                               calls |-> calls ]
            /\ update_raised' =
                   (calls # << >> /\ ~CallAccepted(calls[Len(calls)][1],
                                                   calls[Len(calls)][2]))
            /\ message_log' = NoMessage
            /\ message_raised' = FALSE
            /\ UNCHANGED << components, attrs, entity, animVars, stripVars, legacyVars,
                            sheetVars, graphicVars >>

SendMessage ==
    \E e \in Entities, message_type \in MessageTypes, details \in DetailArgs :
        LET calls == MessageCalls(components[e], message_type, details)
        IN  /\ message_log' = [ entity |-> Some(e), type |-> Some(message_type),
                                details |-> details, calls |-> calls ]
            /\ message_raised' =
                   (calls # << >> /\ ReceiveMessageRaises(calls[Len(calls)][1]))
            /\ update_log' = NoUpdate
            /\ update_raised' = FALSE
            /\ UNCHANGED << components, attrs, entity, animVars, stripVars, legacyVars,
                            sheetVars, graphicVars >>

(* -------------------- sprite-sheet strips: operations ------------------ *)

\* The colours of a pixel: magenta is the colorkey, "mixed" is what blending
\* two different colours at partial opacity leaves.
Colours == { "magenta", "red" }

\* The heights and the opacities of the Surfaces the model starts from.
Heights == { 1, 2 }

Alphas == { 0, 128, 255 }

\* A Surface: columns of pixels (pixels[x][y], 1-indexed) and its alpha.
Surface(width, height, pixels, alpha) ==
    [ width |-> width, height |-> height, pixels |-> pixels, alpha |-> alpha ]

Surfaces ==
    UNION { { Surface(w, h, px, a) :
                px \in [ 1..w -> [ 1..h -> Colours ] ], a \in Alphas } :
            w \in 1..MaxWidth, h \in Heights }

\* Surface.set_alpha
SetAlpha(surf, alpha) == [ surf EXCEPT !.alpha = alpha ]

\* create_blank_surface: magenta all over, magenta colorkey, alpha 255.
CreateBlankSurface(width, height) ==
    Surface(width, height,
            [ x \in 1..width |-> [ y \in 1..height |-> "magenta" ] ], 255)

\* One pixel of Surface.blit: the colorkey is skipped, an opaque source
\* replaces the destination, any other alpha blends the two.
BlitPixel(src, dst, alpha) ==
    IF src = "magenta" \/ alpha = 0 \/ src = dst THEN dst
    ELSE IF alpha = 255 THEN src
    ELSE "mixed"

\* dest.blit(surf, (x, 0), Rect(area_x, 0, area_width, surf height)),
\* with 0-indexed x as in the code; columns outside either Surface are
\* clipped.
Blit(dest, surf, x, area_x, area_width) ==
    [ dest EXCEPT !.pixels =
        [ col \in 1..dest.width |->
            LET from == area_x + (col - 1 - x) + 1
            IN  IF /\ col - 1 >= x
                   /\ col - 1 < x + area_width
                   /\ from \in 1..surf.width
                THEN [ y \in 1..dest.height |->
                         IF y \in 1..surf.height
                         THEN BlitPixel(surf.pixels[from][y],
                                        dest.pixels[col][y], surf.alpha)
                         ELSE dest.pixels[col][y] ]
                ELSE dest.pixels[col] ] ]

\* Variant: the copied frame is taken from the same end of the sheet.
CopyAreaX_SameEnd(sheet, frame_width, x) == x

\* The left edge of copy_area for the frame drawn at x.
CopyAreaX(sheet, frame_width, x) == sheet.width - frame_width - x

\* The loop of order_flipped_sprite_sheet from index on.
RECURSIVE OrderFrames(_, _, _, _, _)
OrderFrames(ordered_sheet, flipped_sheet, frame_width, index, frames) ==
    IF index >= frames THEN ordered_sheet
    ELSE LET x == index * frame_width
         IN  OrderFrames(Blit(ordered_sheet, flipped_sheet, x,
                              CopyAreaX(flipped_sheet, frame_width, x),
                              frame_width),
                         flipped_sheet, frame_width, index + 1, frames)

\* Variant: the source sheet keeps its own alpha while it is copied.
SheetWhileOrdering_KeepsAlpha(flipped_sheet) == flipped_sheet

\* The source sheet as order_flipped_sprite_sheet leaves it: fully opaque.
SheetWhileOrdering(flipped_sheet) == SetAlpha(flipped_sheet, 255)

\* order_flipped_sprite_sheet(flipped_sheet, frame_width): the sheet as the
\* call leaves it and the Surface returned, None when the division by
\* frame_width raises ZeroDivisionError.
OrderFlippedSpriteSheet(flipped_sheet, frame_width) ==
    LET original_alpha == flipped_sheet.alpha
        opaque_sheet == SheetWhileOrdering(flipped_sheet)
        blank == CreateBlankSurface(opaque_sheet.width, opaque_sheet.height)
    IN  IF frame_width = 0
        THEN [ sheet |-> opaque_sheet, result |-> None ]
        ELSE [ sheet |-> opaque_sheet,
               result |-> Some(SetAlpha(
                   OrderFrames(blank, opaque_sheet, frame_width, 0,
                               blank.width \div frame_width),
                   original_alpha)) ]

\* The frame widths order_flipped_sprite_sheet is called with.
FrameWidths == 0..MaxWidth

NoCall == [ made |-> FALSE, frame_width |-> 0, sheet |-> None ]

\* No call of order_flipped_sprite_sheet is followed.
StripIdle ==
    /\ strip = CreateBlankSurface(1, 1)
    /\ ordered = None
    /\ order_call = NoCall

StripInit ==
    /\ strip \in Surfaces
    /\ ordered = None
    /\ order_call = NoCall

\* A call order_flipped_sprite_sheet(strip, frame_width).
OrderStrip ==
    \E frame_width \in FrameWidths :
        LET out == OrderFlippedSpriteSheet(strip, frame_width)
        IN  /\ strip' = out.sheet
            /\ ordered' = out.result
            /\ order_call' = [ made |-> TRUE, frame_width |-> frame_width,
                               sheet |-> Some(strip) ]
            /\ UNCHANGED << animVars, entityVars, sheetVars, graphicVars,
                            legacyVars >>

(* ------------- Animation: sprite sheet and geometry, operations -------- *)

\* pygame.transform.flip(surf, xbool, ybool): a new, mirrored Surface.
TransformFlip(surf, xbool, ybool) ==
    [ surf EXCEPT !.pixels =
        [ x \in 1..surf.width |->
            [ y \in 1..surf.height |->
                surf.pixels[IF xbool THEN surf.width + 1 - x ELSE x]
                           [IF ybool THEN surf.height + 1 - y ELSE y] ] ] ]

\* convert_to_colorkey_alpha: the source drawn onto a magenta Surface of its
\* size, with a magenta colorkey and alpha 255.
ConvertToColorkeyAlpha(surf) ==
    SetAlpha(Blit(CreateBlankSurface(surf.width, surf.height), surf, 0, 0,
                  surf.width), 255)

\* Variant: with no frame durations the whole sheet is one frame.
CalculateFrameWidth_Unchecked(surf, frames) ==
    IF frames = 0 THEN Some(surf.width) ELSE Some(surf.width \div frames)

\* _calculate_frame_width: None when the division raises ZeroDivisionError.
CalculateFrameWidth(surf, frames) ==
    IF frames = 0 THEN None ELSE Some(surf.width \div frames)

\* Surface.set_alpha keeps the value within 0..255.
ClampAlpha(alpha) == IF alpha > 255 THEN 255 ELSE IF alpha < 0 THEN 0 ELSE alpha

\* The duration tuples the constructor is called with in the sheet model,
\* the empty one included.
SheetDurationArgs == UNION { [1..n -> { 1 }] : n \in 0..MaxFrames }

\* The axis arguments of flip: Axis.horizontal, Axis.vertical and both.
Axes == { 1, 2, 3 }

IsHorizontal(axis) == axis \in { 1, 3 }

IsVertical(axis) == axis \in { 2, 3 }

\* The amounts opacify is called with.
OpacifyArgs == { -128, 128 }

NoSheetOp == [ name |-> "none", arg |-> 0 ]

\* No Animation's sprite sheet is followed.
SheetIdle ==
    /\ source = CreateBlankSurface(1, 1)
    /\ built = "no"
    /\ image = None
    /\ rect_width = 0
    /\ rect_height = 0
    /\ sheet_op = NoSheetOp
    /\ flip_raised = FALSE
    /\ returned = None

\* Before Animation(source, 0, 0, *frame_durations) is evaluated.
SheetInit ==
    /\ source \in Surfaces
    /\ built = "no"
    /\ image = None
    /\ rect_width = 0
    /\ rect_height = 0
    /\ sheet_op = NoSheetOp
    /\ flip_raised = FALSE
    /\ returned = None

\* Animation.__init__, Graphic.__init__ included.
Construct ==
    /\ built = "no"
    /\ LET colorkeyed == ConvertToColorkeyAlpha(source)
           width == CalculateFrameWidth(colorkeyed, num_of_frames)
       IN  IF width = None
           THEN /\ built' = "raised"
                /\ UNCHANGED << image, rect_width, rect_height >>
           ELSE /\ built' = "yes"
                /\ image' = Some(colorkeyed)
                /\ rect_width' = width[1]
                /\ rect_height' = source.height
    /\ sheet_op' = [ name |-> "construct", arg |-> 0 ]
    /\ flip_raised' = FALSE
    /\ returned' = None
    /\ UNCHANGED << source, animVars, entityVars, stripVars, legacyVars, graphicVars >>

\* Animation.flip(axis), Graphic.flip included.
Flip ==
    \E axis \in Axes :
        /\ built = "yes"
        /\ LET upright == IF IsVertical(axis)
                          THEN TransformFlip(image[1], FALSE, TRUE)
                          ELSE image[1]
               mirrored == TransformFlip(upright, TRUE, FALSE)
               out == OrderFlippedSpriteSheet(mirrored, rect_width)
           IN  IF IsHorizontal(axis)
               THEN IF out.result = None
                    THEN image' = Some(out.sheet) /\ flip_raised' = TRUE
                    ELSE image' = out.result /\ flip_raised' = FALSE
               ELSE image' = Some(upright) /\ flip_raised' = FALSE
        /\ sheet_op' = [ name |-> "flip", arg |-> axis ]
        /\ returned' = None
        /\ UNCHANGED << source, built, rect_width, rect_height, animVars,
                        entityVars, stripVars, legacyVars, graphicVars >>

\* Graphic.opacify(amount)
Opacify ==
    \E amount \in OpacifyArgs :
        /\ built = "yes"
        /\ image' = Some(SetAlpha(image[1], ClampAlpha(image[1].alpha + amount)))
        /\ sheet_op' = [ name |-> "opacify", arg |-> amount ]
        /\ flip_raised' = FALSE
        /\ returned' = None
        /\ UNCHANGED << source, built, rect_width, rect_height, animVars,
                        entityVars, stripVars, legacyVars, graphicVars >>

(* ------------- Animation: scaling and drawing onto the sheet ----------- *)

\* pygame.Rect
Rect(x, y, width, height) ==
    [ x |-> x, y |-> y, width |-> width, height |-> height ]

\* pygame.transform.scale(surf, (width, height)): every pixel of the new
\* Surface takes the nearest pixel of surf; scaled from an empty Surface it
\* is left as allocated, black.
TransformScale(surf, width, height) ==
    [ surf EXCEPT
        !.width = width,
        !.height = height,
        !.pixels =
            [ x \in 1..width |->
                [ y \in 1..height |->
                    IF surf.width = 0 \/ surf.height = 0 THEN "black"
                    ELSE surf.pixels[((x - 1) * surf.width) \div width + 1]
                                    [((y - 1) * surf.height) \div height + 1] ] ] ]

Min(a, b) == IF a < b THEN a ELSE b

\* The Rect dest.blit(surf, (x, 0)) returns: the part of dest drawn onto, of
\* size 0 when surf falls outside dest.
BlitRect(dest, surf, x) ==
    LET left == IF x < 0 THEN 0 ELSE x
        right == Min(x + surf.width, dest.width)
    IN  IF right > left
        THEN Rect(left, 0, right - left, Min(surf.height, dest.height))
        ELSE Rect(x, 0, 0, 0)

\* The loop of Animation.blit from frame index down to 0: position[0] is
\* increased by index * frame width on every pass and the draw on frame 0
\* ends the loop with its Rect.
RECURSIVE BlitOnFrames(_, _, _, _, _)
BlitOnFrames(sheet, surf, position_x, frame_width, index) ==
    LET x == position_x + index * frame_width
        drawn_on == Blit(sheet, surf, x, 0, surf.width)
    IN  IF index = 0
        THEN [ image |-> drawn_on, rect |-> BlitRect(sheet, surf, x) ]
        ELSE BlitOnFrames(drawn_on, surf, x, frame_width, index - 1)

\* The Surfaces Animation.blit is given and the x-positions it is given.
BlitSources == { Surface(1, 1, << << "red" >> >>, 255) }

BlitPositions == { 0, 1 }

\* The frame widths and heights resize is called with, the zooms magnify is
\* called with.
ResizeWidths == { 1, 2 }

ResizeHeights == { 1, 2 }

Zooms == { 1, 2 }

\* Animation.blit(surf, (x, 0))
AnimationBlit ==
    \E surf \in BlitSources, x \in BlitPositions :
        /\ built = "yes"
        /\ LET out == BlitOnFrames(image[1], surf, x, rect_width,
                                   num_of_frames - 1)
           IN  /\ image' = Some(out.image)
               /\ returned' = Some(out.rect)
        /\ sheet_op' = [ name |-> "blit", arg |-> x ]
        /\ flip_raised' = FALSE
        /\ UNCHANGED << source, built, rect_width, rect_height, animVars,
                        entityVars, stripVars, legacyVars, graphicVars >>

\* _update_rect_dimensions after _image has become scaled
UpdateRectDimensions(scaled) ==
    /\ image' = Some(scaled)
    /\ rect_width' = scaled.width \div num_of_frames
    /\ rect_height' = scaled.height

\* Animation.magnify(zoom)
Magnify ==
    \E zoom \in Zooms :
        /\ built = "yes"
        /\ rect_width * zoom * num_of_frames <= MaxSheetWidth
        /\ rect_height * zoom <= MaxSheetHeight
        /\ UpdateRectDimensions(
               TransformScale(image[1], rect_width * zoom * num_of_frames,
                              rect_height * zoom))
        /\ sheet_op' = [ name |-> "magnify", arg |-> zoom ]
        /\ flip_raised' = FALSE
        /\ returned' = None
        /\ UNCHANGED << source, built, animVars, entityVars, stripVars, legacyVars, graphicVars >>

\* Animation.resize(new_width, new_height), Graphic.resize included.
Resize ==
    \E new_width \in ResizeWidths, new_height \in ResizeHeights :
        /\ built = "yes"
        /\ new_width * num_of_frames <= MaxSheetWidth
        /\ UpdateRectDimensions(
               TransformScale(image[1], new_width * num_of_frames, new_height))
        /\ sheet_op' = [ name |-> "resize", arg |-> new_width ]
        /\ flip_raised' = FALSE
        /\ returned' = None
        /\ UNCHANGED << source, built, animVars, entityVars, stripVars, legacyVars, graphicVars >>

\* The sheets the scaling and drawing model starts from: one row, opaque.
GeometrySources == { surf \in Surfaces : surf.height = 1 /\ surf.alpha = 255 }


(* --------------------- Graphic: position, operations ------------------- *)

\* A coordinate argument is written in halves, h standing for h / 2, so that
\* the floats 0.5 and -1.5 can be passed; these are the arguments in use.
HalfArgs == { -3, -2, 0, 1, 2 }

\* int(round(h / 2)): Python 2 rounds a half away from zero.
RoundHalf(h) ==
    IF h % 2 = 0 THEN h \div 2
    ELSE IF h > 0 THEN (h + 1) \div 2 ELSE (h - 1) \div 2

\* The positions an Entity is put at.
EntityCoords == { -1, 0, 1 }

\* The sources the Graphics of the position model are made from.
GraphicSources == { CreateBlankSurface(1, 1), CreateBlankSurface(MaxWidth, 2) }


\* Variant: the Rect is returned where it is, relative to the entity.
RectMove_Stays(rect, x, y) == rect

\* Rect.move(x, y): a new Rect, moved by (x, y).
RectMove(rect, x, y) == Rect(rect.x + x, rect.y + y, rect.width, rect.height)

NoGraphicOp == [ name |-> "none", x |-> None, y |-> None ]

\* The areas of the screen center is called with.
ContainerRects == { Rect(0, 0, MaxWidth + 2, 4), Rect(1, 1, MaxWidth, 2) }

NoCenter == [ made |-> FALSE, raised |-> FALSE, axis |-> 0,
              container |-> Rect(0, 0, 0, 0),
              before |-> Rect(0, 0, 0, 0) ]

\* The attributes an Entity has: the ones __init__ sets, the methods of Entity
\* and of pygame's Sprite, and the names components are set under.
EntityAttributes ==
    { "x", "y", "components", "add_component", "update",
      "_component_takes_time_argument", "send_message",
      "add", "remove", "add_internal", "remove_internal", "kill", "groups",
      "alive" } \cup AttrNames

\* No Graphic's position is followed.
GraphicIdle ==
    /\ entity_x = 0
    /\ entity_y = 0
    /\ graphic_bound = FALSE
    /\ rect_x = 0
    /\ rect_y = 0
    /\ drawn = None
    /\ draw_raised = FALSE
    /\ center_call = NoCenter
    /\ graphic_op = NoGraphicOp

\* After Graphic(source, x, y) and Entity(x, y), the two not yet bound.
GraphicInit ==
    /\ entity_x \in EntityCoords
    /\ entity_y \in EntityCoords
    /\ graphic_bound = FALSE
    /\ rect_x \in { 0, 1 }
    /\ rect_y \in { 0, 1 }
    /\ drawn = None
    /\ draw_raised = FALSE
    /\ center_call = NoCenter
    /\ graphic_op = NoGraphicOp
    /\ source \in GraphicSources
    /\ built = "yes"
    /\ image = Some(ConvertToColorkeyAlpha(source))
    /\ rect_width = source.width
    /\ rect_height = source.height
    /\ sheet_op = NoSheetOp
    /\ flip_raised = FALSE
    /\ returned = None

\* entity.add_component(graphic), as far as the Graphic's position goes.
BindGraphic ==
    /\ ~graphic_bound
    /\ graphic_bound' = TRUE
    /\ graphic_op' = [ name |-> "bind", x |-> None, y |-> None ]
    /\ drawn' = None
    /\ draw_raised' = FALSE
    /\ center_call' = NoCenter
    /\ UNCHANGED << entity_x, entity_y, rect_x, rect_y, animVars, entityVars,
                    stripVars, legacyVars, sheetVars >>

\* The game assigns the public attributes x and y of the Entity.
MoveEntity ==
    \E x \in EntityCoords, y \in EntityCoords :
        /\ entity_x' = x
        /\ entity_y' = y
        /\ graphic_op' = [ name |-> "move_entity", x |-> Some(2 * x),
                           y |-> Some(2 * y) ]
        /\ drawn' = None
        /\ draw_raised' = FALSE
        /\ center_call' = NoCenter
        /\ UNCHANGED << graphic_bound, rect_x, rect_y, animVars, entityVars,
                        stripVars, legacyVars, sheetVars >>

\* Graphic.offset(dx, dy)
Offset ==
    \E dx \in HalfArgs, dy \in HalfArgs :
        /\ rect_x + RoundHalf(dx) \in (-MaxCoord)..MaxCoord
        /\ rect_y + RoundHalf(dy) \in (-MaxCoord)..MaxCoord
        /\ rect_x' = rect_x + RoundHalf(dx)
        /\ rect_y' = rect_y + RoundHalf(dy)
        /\ graphic_op' = [ name |-> "offset", x |-> Some(dx), y |-> Some(dy) ]
        /\ drawn' = None
        /\ draw_raised' = FALSE
        /\ center_call' = NoCenter
        /\ UNCHANGED << entity_x, entity_y, graphic_bound, animVars,
                        entityVars, stripVars, legacyVars, sheetVars >>

\* The arguments new_x and new_y of set_position: omitted, or a coordinate.
PositionArgs == { None } \cup { Some(h) : h \in HalfArgs }

\* Graphic.set_position(new_x, new_y)
SetPosition ==
    \E new_x \in PositionArgs, new_y \in PositionArgs :
        /\ rect_x' = IF new_x # None THEN RoundHalf(new_x[1]) ELSE rect_x
        /\ rect_y' = IF new_y # None THEN RoundHalf(new_y[1]) ELSE rect_y
        /\ graphic_op' = [ name |-> "set_position", x |-> new_x, y |-> new_y ]
        /\ drawn' = None
        /\ draw_raised' = FALSE
        /\ center_call' = NoCenter
        /\ UNCHANGED << entity_x, entity_y, graphic_bound, animVars,
                        entityVars, stripVars, legacyVars, sheetVars >>

\* Graphic.center(axis, container_rect): self.entity.set_position is looked
\* up on the first requested axis; the lookup fails on None and on an object
\* without that attribute, and the call ends there in AttributeError.
Center ==
    \E axis \in Axes, container_rect \in ContainerRects :
        LET raises == ~graphic_bound \/ "set_position" \notin EntityAttributes
            centered_x == (container_rect.width - rect_width) \div 2
                              + container_rect.x
            centered_y == (container_rect.height - rect_height) \div 2
                              + container_rect.y
        IN  /\ IF raises
               THEN UNCHANGED << entity_x, entity_y >>
               ELSE /\ entity_x' = IF IsHorizontal(axis)
                                   THEN centered_x - rect_x ELSE entity_x
                    /\ entity_y' = IF IsVertical(axis)
                                   THEN centered_y - rect_y ELSE entity_y
            /\ center_call' = [ made |-> TRUE, raised |-> raises,
                                axis |-> axis, container |-> container_rect,
                                before |-> Rect(entity_x, entity_y, rect_x,
                                                rect_y) ]
            /\ graphic_op' = [ name |-> "center", x |-> None, y |-> None ]
            /\ drawn' = None
            /\ draw_raised' = FALSE
            /\ UNCHANGED << graphic_bound, rect_x, rect_y, animVars,
                            entityVars, stripVars, legacyVars, sheetVars >>

\* Graphic.draw_rect(): self.entity is None until the Graphic is bound.
DrawRect ==
    /\ IF graphic_bound
       THEN /\ drawn' = Some(RectMove(Rect(rect_x, rect_y, rect_width,
                                           rect_height),
                                      entity_x, entity_y))
            /\ draw_raised' = FALSE
       ELSE /\ drawn' = None
            /\ draw_raised' = TRUE
    /\ graphic_op' = [ name |-> "draw_rect", x |-> None, y |-> None ]
    /\ center_call' = NoCenter
    /\ UNCHANGED << entity_x, entity_y, graphic_bound, rect_x, rect_y,
                    animVars, entityVars, stripVars, legacyVars, sheetVars >>

(* ------------------ entity.py: Entity and Component -------------------- *)

\* Component instances of classes whose __init__ does not run Component's.
LegacyComps == { "k1", "k2" }

\* An argument of add_component: a component, or whatever else is passed in
\* its place, here a tuple of components.
ComponentArg(c) == [ tuple |-> FALSE, of |-> << c >> ]

TupleArg(cs) == [ tuple |-> TRUE, of |-> cs ]

\* The argument lists Entity(x, y, *components) is called with.
LegacyArgs ==
    [ x : EntityCoords, y : EntityCoords,
      components : UNION { [1..n -> LegacyComps] : n \in 0..MaxComponents } ]

\* entity.py's add_component(*args) on a list: every argument is appended and
\* then asked to bind_to_entity, which a tuple cannot do: AttributeError.
RECURSIVE LegacyAddComponent(_, _)
LegacyAddComponent(st, args) ==
    IF args = << >> THEN st
    ELSE LET arg == Head(args)
             appended == [ st EXCEPT !.components = Append(@, arg) ]
         IN  IF arg.tuple
             THEN [ appended EXCEPT !.raised = TRUE ]
             ELSE LegacyAddComponent(
                      [ appended EXCEPT !.entity[arg.of[1]] = Some("e") ],
                      Tail(args))

\* The names bound in the body of Component.__init__(*args): args only.
ComponentInitLocals == { "args" }

\* No object of entity.py or graphics.py is followed.
LegacyIdle ==
    /\ legacy_args = [ x |-> 0, y |-> 0, components |-> << >> ]
    /\ legacy_made = "no"
    /\ legacy_built = "no"
    /\ legacy_components = << >>
    /\ legacy_entity = [ c \in LegacyComps |-> None ]
    /\ legacy_rect = Rect(0, 0, 1, 1)
    /\ legacy_destination = [ width |-> 1, height |-> 1 ]
    /\ legacy_query = [ name |-> "none", result |-> FALSE ]

\* Component(): the body assigns self.entity, and self is not a name there.
MakeComponent ==
    /\ legacy_made' = IF "self" \in ComponentInitLocals THEN "yes" ELSE "raised"
    /\ UNCHANGED << legacy_args, legacy_built, legacy_components,
                    legacy_entity, legacy_rect, legacy_destination,
                    legacy_query, animVars, entityVars, stripVars, sheetVars,
                    graphicVars >>

\* Entity(x, y, *components): __init__ hands the tuple components itself to
\* add_component, as its one argument.
ConstructLegacyEntity ==
    /\ legacy_built = "no"
    /\ LET st == LegacyAddComponent(
                     [ components |-> << >>, entity |-> legacy_entity,
                       raised |-> FALSE ],
                     << TupleArg(legacy_args.components) >>)
       IN  /\ legacy_components' = st.components
           /\ legacy_entity' = st.entity
           /\ legacy_built' = IF st.raised THEN "raised" ELSE "yes"
    /\ UNCHANGED << legacy_args, legacy_made, legacy_rect,
                    legacy_destination, legacy_query, animVars, entityVars,
                    stripVars, sheetVars, graphicVars >>

(* ------------------------ graphics.py: Graphic -------------------------- *)

\* pygame's Rect.contains: rect lies within bounds and begins inside it.
RectContains(bounds, rect) ==
    /\ bounds.x <= rect.x
    /\ bounds.y <= rect.y
    /\ bounds.x + bounds.width >= rect.x + rect.width
    /\ bounds.y + bounds.height >= rect.y + rect.height
    /\ bounds.x + bounds.width > rect.x
    /\ bounds.y + bounds.height > rect.y

\* graphics.py's Graphic.is_contained()
LegacyIsContained(rect, destination) ==
    RectContains(Rect(0, 0, destination.width, destination.height), rect)

\* graphics.py's Graphic.is_outside()
LegacyIsOutside(rect, destination) ==
    \/ rect.x + rect.width < 0
    \/ rect.x > destination.width
    \/ rect.y + rect.height < 0
    \/ rect.y > destination.height

\* The sizes of the images and destinations, the positions of the Graphics
\* and the distances they are moved by.
LegacySizes == { 1, 2 }

LegacyCoords == (-(MaxCoord + 1))..(MaxCoord + 1)

LegacyStarts == (-MaxCoord)..MaxCoord

LegacySteps == { -1, 0, 1 }

\* graphics.py's Graphic.move(dx, dy), with ints.
LegacyMove ==
    \E dx \in LegacySteps, dy \in LegacySteps :
        /\ legacy_rect.x + dx \in LegacyCoords
        /\ legacy_rect.y + dy \in LegacyCoords
        /\ legacy_rect' = Rect(legacy_rect.x + dx, legacy_rect.y + dy,
                               legacy_rect.width, legacy_rect.height)
        /\ legacy_query' = [ name |-> "none", result |-> FALSE ]
        /\ UNCHANGED << legacy_args, legacy_made, legacy_built,
                        legacy_components, legacy_entity, legacy_destination,
                        animVars, entityVars, stripVars, sheetVars,
                        graphicVars >>

IsContained ==
    /\ legacy_query' = [ name |-> "is_contained",
                         result |-> LegacyIsContained(legacy_rect,
                                                      legacy_destination) ]
    /\ UNCHANGED << legacy_args, legacy_made, legacy_built, legacy_components,
                    legacy_entity, legacy_rect, legacy_destination, animVars,
                    entityVars, stripVars, sheetVars, graphicVars >>

IsOutside ==
    /\ legacy_query' = [ name |-> "is_outside",
                         result |-> LegacyIsOutside(legacy_rect,
                                                    legacy_destination) ]
    /\ UNCHANGED << legacy_args, legacy_made, legacy_built, legacy_components,
                    legacy_entity, legacy_rect, legacy_destination, animVars,
                    entityVars, stripVars, sheetVars, graphicVars >>

\* The position model: one Graphic and the Entity it becomes bound to.
InitGraphic ==
    /\ AnimInit
    /\ frame_durations = << 2, 2, 2 >>
    /\ EntityInit
    /\ StripIdle
    /\ GraphicInit
    /\ LegacyIdle

NextGraphic ==
    \/ BindGraphic
    \/ MoveEntity
    \/ Offset
    \/ SetPosition
    \/ DrawRect
    \/ Center

SpecGraphic == InitGraphic /\ [][NextGraphic]_vars

\* The scaling and drawing model: one Animation, from before its
\* construction on.
InitGeometry ==
    /\ frame_durations \in SheetDurationArgs
    /\ AnimFieldsInit
    /\ EntityInit
    /\ StripIdle
    /\ SheetInit
    /\ GraphicIdle
    /\ LegacyIdle
    /\ source \in GeometrySources

NextGeometry ==
    \/ Construct
    \/ Flip
    \/ Magnify
    \/ Resize
    \/ AnimationBlit

SpecGeometry == InitGeometry /\ [][NextGeometry]_vars

\* entity.py: the arguments of one Entity(...) call, before it and before
\* any Component() is evaluated.
InitLegacyEntity ==
    /\ AnimInit
    /\ frame_durations = << 2, 2, 2 >>
    /\ EntityInit
    /\ StripIdle
    /\ SheetIdle
    /\ GraphicIdle
    /\ legacy_args \in LegacyArgs
    /\ legacy_made = "no"
    /\ legacy_built = "no"
    /\ legacy_components = << >>
    /\ legacy_entity = [ c \in LegacyComps |-> None ]
    /\ legacy_rect = Rect(0, 0, 1, 1)
    /\ legacy_destination = [ width |-> 1, height |-> 1 ]
    /\ legacy_query = [ name |-> "none", result |-> FALSE ]

NextLegacyEntity ==
    \/ MakeComponent
    \/ ConstructLegacyEntity

SpecLegacyEntity == InitLegacyEntity /\ [][NextLegacyEntity]_vars

\* graphics.py: one Graphic after Graphic(source, destination, x, y).
InitLegacyGraphic ==
    /\ AnimInit
    /\ frame_durations = << 2, 2, 2 >>
    /\ EntityInit
    /\ StripIdle
    /\ SheetIdle
    /\ GraphicIdle
    /\ legacy_args = [ x |-> 0, y |-> 0, components |-> << >> ]
    /\ legacy_made = "no"
    /\ legacy_built = "no"
    /\ legacy_components = << >>
    /\ legacy_entity = [ c \in LegacyComps |-> None ]
    /\ legacy_rect \in { Rect(x, y, w, h) : x \in LegacyStarts,
                                           y \in LegacyStarts,
                                           w \in LegacySizes,
                                           h \in LegacySizes }
    /\ legacy_destination \in [ width : LegacySizes, height : LegacySizes ]
    /\ legacy_query = [ name |-> "none", result |-> FALSE ]

NextLegacyGraphic ==
    \/ LegacyMove
    \/ IsContained
    \/ IsOutside

SpecLegacyGraphic == InitLegacyGraphic /\ [][NextLegacyGraphic]_vars

Init ==
    AnimInit /\ EntityInit /\ StripIdle /\ SheetIdle /\ GraphicIdle /\ LegacyIdle

\* The entity model starts from one Animation, built with durations (2, 2, 2).
InitEntity ==
    /\ AnimInit
    /\ frame_durations = << 2, 2, 2 >>
    /\ EntityInit
    /\ StripIdle
    /\ SheetIdle
    /\ GraphicIdle
    /\ LegacyIdle

\* The strip model: one Surface, handed to order_flipped_sprite_sheet.
InitStrip ==
    /\ AnimInit
    /\ frame_durations = << 2, 2, 2 >>
    /\ EntityInit
    /\ StripInit
    /\ SheetIdle
    /\ GraphicIdle
    /\ LegacyIdle

NextStrip ==
    \/ OrderStrip

SpecStrip == InitStrip /\ [][NextStrip]_vars

\* The sheet model: one Animation, from before its construction on.
InitSheet ==
    /\ frame_durations \in SheetDurationArgs
    /\ AnimFieldsInit
    /\ EntityInit
    /\ StripIdle
    /\ SheetInit
    /\ GraphicIdle
    /\ LegacyIdle

NextSheet ==
    \/ Construct
    \/ Flip
    \/ Opacify

SpecSheet == InitSheet /\ [][NextSheet]_vars

NextEntity ==
    \/ AddComponent
    \/ EntityUpdate
    \/ SendMessage

SpecEntity == InitEntity /\ [][NextEntity]_vars

Next ==
    \/ Update
    \/ Pause
    \/ Unpause
    \/ HoldFrame
    \/ EnableBackwardsPlayback
    \/ ToggleBackwardsPlayback

Spec == Init /\ [][Next]_vars

\* Uninterrupted playback after hold_frame: any calls but hold_frame come
\* first, then hold_frame on an unpaused Animation, then update() only, which
\* the game loop calls once per cycle for as long as it runs.
HoldPrelude ==
    /\ ~ever_armed
    /\ \/ Update
       \/ Pause
       \/ Unpause
       \/ EnableBackwardsPlayback
       \/ ToggleBackwardsPlayback

ArmHold ==
    /\ ~ever_armed
    /\ ~is_paused
    /\ HoldFrame

HoldUpdate ==
    /\ ever_armed
    /\ Update

NextHold ==
    \/ HoldPrelude
    \/ ArmHold
    \/ HoldUpdate

SpecHold == Init /\ [][NextHold]_vars /\ WF_vars(HoldUpdate)

(* ============================ properties =============================== *)

\* A step of update(): the only operation that counts a tick.
UpdateStep == ticks' = ticks + 1

\* An update() of an unpaused Animation that changed (or wrapped) the frame:
\* only then is the counter 0 afterwards, as it is incremented first.
TransitionStep == UpdateStep /\ ~is_paused /\ frame_counter' = 0

AllDurationsPositive == \A i \in 1..num_of_frames : frame_durations[i] >= 1

\* C1: after any sequence of update, pause, unpause, hold_frame and direction
\* calls the frame index is in [0, N); a forward transition from N-1 gives 0
\* and a backward transition from 0 gives N-1.
C1_FrameIndexInRange ==
    /\ [](frame_index \in 0..(num_of_frames - 1))
    /\ [][TransitionStep =>
            /\ (~is_playing_backwards /\ frame_index = num_of_frames - 1
                    => frame_index' = 0)
            /\ (is_playing_backwards /\ frame_index = 0
                    => frame_index' = num_of_frames - 1)]_vars

\* C1 witness: a three-frame Animation has just stepped backward from 0 to 2.
C1_Witness ==
    /\ num_of_frames = 3
    /\ is_playing_backwards
    /\ ticks = 1
    /\ ~is_paused
    /\ frame_counter = 0
    /\ frame_index = 2

C4_StatedIndex(t) == CASE t \in { 1, 2 } -> 0
                       [] t \in { 3, 4, 5 } -> 1
                       [] t = 6 -> 2

\* The frame index after each tick with every frame lasting two updates.
C4_AmendedIndex(t) == CASE t = 1 -> 0
                        [] t \in { 2, 3 } -> 1
                        [] t \in { 4, 5 } -> 2
                        [] t = 6 -> 0

C5_HoldPausesOnArrival ==
    [][(/\ UpdateStep
        /\ ~is_paused
        /\ held_frame # None
        /\ held_frame[1] \in 0..(num_of_frames - 1))
            => /\ is_paused' <=> (frame_counter' = 0
                                    /\ frame_index' = held_frame[1])
               /\ is_paused' => (frame_index' = held_frame[1]
                                    /\ frame_counter' = 0)]_vars

\* C5 witness: the latest update() held frame 1 of a three-frame Animation.
C5_Witness ==
    /\ num_of_frames = 3
    /\ last_hit = Some(1)
    /\ is_paused
    /\ frame_index = 1
    /\ frame_counter = 0

\* C6: the update() that pauses the Animation clears the target, and while no
\* target is armed no update() pauses it, whatever frame it passes through.
C6_HoldIsOneShot ==
    [][/\ (UpdateStep /\ ~is_paused /\ is_paused') => held_frame' = None
       /\ (UpdateStep /\ held_frame = None) => (is_paused' = is_paused)]_vars

\* C6 witness: a target was armed and matched, and after it the Animation has
\* played one whole cycle from frame 0 through every frame without pausing.
C6_Witness ==
    /\ ever_armed
    /\ held_frame = None
    /\ num_of_frames = 3
    /\ AllDurationsPositive
    /\ start = "fresh"
    /\ ticks = SumSeq(frame_durations)
    /\ ~is_paused

\* C7: the frame held through the negative sentinel is the last one in the
\* play direction: N-1 forward, 0 with backwards playback enabled.
C7_SentinelFollowsDirection ==
    (AllDurationsPositive /\ last_hit # None /\ last_hit[1] < 0)
        => frame_index = (IF is_playing_backwards THEN 0
                          ELSE num_of_frames - 1)

\* C8: update() on a paused Animation changes neither frame index, counter,
\* direction, hold target nor the paused flag.
C8_PausedUpdateIsNoOp ==
    [][(UpdateStep /\ is_paused)
        => UNCHANGED << frame_index, frame_counter, is_playing_backwards,
                        held_frame, is_paused >>]_vars

\* C8 witness: a paused Animation with a target armed has received three
\* update() calls in a row.
C8_Witness ==
    /\ is_paused
    /\ held_frame # None
    /\ ticks = 3

\* The positions in an entity's components list bound under attribute name.
PositionsOf(e, name) ==
    { i \in 1..Len(components[e]) : AttributeName(components[e][i]) = name }

Max(S) == CHOOSE m \in S : \A n \in S : n <= m

\* C9: the accessor for a role refers to the component of that role that was
\* bound to the entity most recently, and to nothing when none was bound.
C9_AccessorIsLastBound ==
    \A e \in Entities, name \in AttrNames :
        attrs[e][name] =
            (IF PositionsOf(e, name) = { } THEN None
             ELSE Some(components[e][Max(PositionsOf(e, name))]))

\* C9 witness: two Graphics were bound to e1, g1 first: the accessor gives g2.
C9_Witness ==
    /\ components["e1"] = << "g1", "g2" >>
    /\ attrs["e1"]["graphic"] = Some("g2")

\* C10: an entity's components list holds at most one component per role, and
\* Entity.update calls only the component its role accessor refers to.
C10_OneComponentPerRole ==
    \A e \in Entities :
        /\ \A i, j \in 1..Len(components[e]) :
                (/\ i < j
                 /\ components[e][i] # components[e][j])
                    => AttributeName(components[e][i])
                            # AttributeName(components[e][j])
        /\ update_log.entity = Some(e) =>
                \A k \in 1..Len(update_log.calls) :
                    attrs[e][AttributeName(update_log.calls[k][1])]
                        = Some(update_log.calls[k][1])

\* C11: send_message on an entity with k bound components makes exactly k
\* receive_message calls, one per component in binding order, each with the
\* message type and the details tuple that were sent.
C11_MessageReachesEveryComponent ==
    \A e \in Entities :
        message_log.entity = Some(e) =>
            /\ Len(message_log.calls) = Len(components[e])
            /\ \A i \in 1..Len(message_log.calls) :
                    message_log.calls[i] =
                        << components[e][i], message_log.type[1],
                           message_log.details >>

\* C12: send_message on an entity whose components are plain Components,
\* Graphics or Animations completes without NotImplementedError.
C12_UnhandledMessageIsIgnored ==
    message_log.entity # None => ~message_raised

\* C13: Entity.update calls the update of every bound component exactly once,
\* in binding order, and returns after the last one has completed.
C13_UpdateReachesEveryComponentOnce ==
    \A e \in Entities :
        update_log.entity = Some(e) =>
            /\ ~update_raised
            /\ Len(update_log.calls) = Len(components[e])
            /\ \A i \in 1..Len(update_log.calls) :
                    update_log.calls[i][1] = components[e][i]
            /\ \A i, j \in 1..Len(update_log.calls) :
                    i # j => update_log.calls[i][1] # update_log.calls[j][1]

\* C14: Entity.update(t) calls a component whose update takes the elapsed time
\* with t and an Animation with no argument, and no call fails on the number
\* of arguments passed.
C14_UpdateMatchesSignature ==
    update_log.entity # None =>
        /\ ~update_raised
        /\ \A i \in 1..Len(update_log.calls) :
                update_log.calls[i][2] =
                    (IF IsAnimationKind(ClassOf(update_log.calls[i][1]))
                     THEN << >>
                     ELSE << update_log.time[1] >>)

\* The columns of frame i (0-indexed) of a sheet of frames frame_width wide.
FramePixels(surf, frame_width, i) ==
    [ off \in 1..frame_width |-> surf.pixels[i * frame_width + off] ]

\* C15: order_flipped_sprite_sheet on a strip of width N * frame_width returns
\* a strip of the same width and height whose frame i holds the pixels of
\* source frame N-1-i, for every i in [0, N).
C15_FrameOrderRestored ==
    (/\ order_call.made
     /\ order_call.frame_width >= 1
     /\ order_call.sheet[1].width % order_call.frame_width = 0)
        => LET sheet == order_call.sheet[1]
               fw == order_call.frame_width
               n == sheet.width \div fw
           IN  /\ ordered # None
               /\ ordered[1].width = sheet.width
               /\ ordered[1].height = sheet.height
               /\ \A i \in 0..(n - 1) :
                      FramePixels(ordered[1], fw, i)
                          = FramePixels(sheet, fw, n - 1 - i)

\* C15 witness: a half-transparent strip of two frames, two pixels wide each
\* and different from one another, has been reordered.
C15_Witness ==
    /\ order_call.made
    /\ order_call.frame_width = 2
    /\ order_call.sheet[1].width = 4
    /\ order_call.sheet[1].alpha = 128
    /\ FramePixels(order_call.sheet[1], 2, 0)
            # FramePixels(order_call.sheet[1], 2, 1)
    /\ ordered # None
    /\ FramePixels(ordered[1], 2, 0) = FramePixels(order_call.sheet[1], 2, 1)

\* C17: order_flipped_sprite_sheet leaves its input with the pixels and the
\* opacity it had before the call, and the strip returned carries that
\* opacity.
C17_InputStripUntouched ==
    (order_call.made /\ ordered # None) =>
        /\ strip = order_call.sheet[1]
        /\ ordered[1].alpha = order_call.sheet[1].alpha

\* The columns of a frame in right-to-left order: its left-right mirror image.
MirroredFrame(frame) ==
    [ off \in 1..Len(frame) |-> frame[Len(frame) + 1 - off] ]

\* A step of flip with a horizontal part and no vertical part.
HorizontalFlipStep ==
    /\ built = "yes"
    /\ sheet_op' = [ name |-> "flip", arg |-> 1 ]

\* C16: flip(horizontal) leaves the frame order unchanged: frame i afterwards
\* is the mirror image of what frame i was before, for every i in [0, N), and
\* frame index, counter, direction and pause state are untouched.
C16_FlipKeepsFrameOrder ==
    [][HorizontalFlipStep =>
        /\ \A i \in 0..(num_of_frames - 1) :
              FramePixels(image'[1], rect_width, i)
                  = MirroredFrame(FramePixels(image[1], rect_width, i))
        /\ UNCHANGED << frame_index, frame_counter, is_playing_backwards,
                        is_paused >>]_vars

\* C16 witness: a half-transparent sheet of two frames, two pixels wide each,
\* neither symmetric nor equal to the other, has been flipped horizontally.
C16_Witness ==
    /\ sheet_op = [ name |-> "flip", arg |-> 1 ]
    /\ ~flip_raised
    /\ num_of_frames = 2
    /\ rect_width = 2
    /\ image[1].alpha = 127
    /\ FramePixels(image[1], 2, 0) # FramePixels(image[1], 2, 1)
    /\ FramePixels(image[1], 2, 0) # MirroredFrame(FramePixels(image[1], 2, 0))
    /\ FramePixels(image[1], 2, 0) # MirroredFrame(FramePixels(image[1], 2, 1))

\* C18: the constructor raises exactly when it is given no frame durations,
\* and no Animation with zero frames is produced.
C18_EmptyDurationsRejected ==
    /\ built # "no" => (built = "raised" <=> num_of_frames = 0)
    /\ built = "yes" => (num_of_frames >= 1 /\ image # None)

\* C18 witness: the constructor was given no durations and has raised.
C18_Witness ==
    /\ built = "raised"
    /\ num_of_frames = 0
    /\ image = None

\* C19: an Animation is constructed only when its sheet divides into as many
\* frames as it has durations, and the count never makes a later flip fail.
C19_MismatchRejected ==
    /\ built = "yes" => image[1].width = num_of_frames * rect_width
    /\ ~flip_raised

\* C20: once a component has been bound to an entity, no add_component call
\* changes the entity it refers to.
C20_BackReferenceSetOnce ==
    [][\A c \in Comps : entity[c] # None => entity'[c] = entity[c]]_vars

\* C21: no component is in the components list of two entities, and every
\* component in an entity's list refers back to that entity.
C21_ComponentsNeverShared ==
    /\ \A c \in Comps :
          Cardinality({ e \in Entities :
                          \E i \in 1..Len(components[e]) :
                              components[e][i] = c }) <= 1
    /\ \A e \in Entities :
          \A i \in 1..Len(components[e]) :
              entity[components[e][i]] = Some(e)

\* An update() of an unpaused Animation on which the counter, once
\* incremented, has reached the duration of the current frame.
FrameChangeStep ==
    /\ UpdateStep
    /\ ~is_paused
    /\ FrameHasCompletedDuration(frame_counter + 1, frame_index)

\* C22: every pause() and every update() that changes or wraps the frame
\* leaves the counter at 0, and a step that takes the counter from a non-zero
\* value to 0 is a pause() or such an update().
C22_CounterResetExactlyOnPauseAndTransition ==
    [][/\ Pause => frame_counter' = 0
       /\ FrameChangeStep => frame_counter' = 0
       /\ (UpdateStep /\ frame_index' # frame_index) => frame_counter' = 0
       /\ (frame_counter # 0 /\ frame_counter' = 0)
              => (Pause \/ FrameChangeStep)]_vars

\* C22 witness: durations (2, 1), three updates from the start: the third has
\* wrapped the index from 1 to 0 and left the counter at 0.
C22_Witness ==
    /\ frame_durations = << 2, 1 >>
    /\ start = "fresh"
    /\ ticks = 3
    /\ frame_index = 0
    /\ frame_counter = 0
    /\ ~is_paused

\* C23: pause() sets the paused flag and the counter to 0 and leaves frame
\* index, direction and hold target alone; unpause() clears the paused flag
\* and leaves frame index, counter, direction and hold target alone.
C23_PauseAndUnpauseEffects ==
    [][/\ Pause => /\ is_paused'
                   /\ frame_counter' = 0
                   /\ UNCHANGED << frame_index, is_playing_backwards,
                                   held_frame >>
       /\ Unpause => /\ ~is_paused'
                     /\ UNCHANGED << frame_index, frame_counter,
                                     is_playing_backwards, held_frame >>
       \* the calls seen from outside: only pause() sets the flag without
       \* counting a tick, only unpause() clears it
       /\ (~UpdateStep /\ ~is_paused /\ is_paused')
            => /\ frame_counter' = 0
               /\ UNCHANGED << frame_index, is_playing_backwards, held_frame >>
       /\ (is_paused /\ ~is_paused')
            => UNCHANGED << frame_index, frame_counter, is_playing_backwards,
                            held_frame >>]_vars

\* C23 witness: an Animation on which hold_frame was never called is paused,
\* so pause() has paused it, on frame 1 in backwards playback.
C23_Witness ==
    /\ is_paused
    /\ ~ever_armed
    /\ frame_index = 1
    /\ frame_counter = 0
    /\ is_playing_backwards
    /\ ticks = 0

\* C24: enable_backwards_playback and toggle_backwards_playback change only
\* the direction, toggle to the opposite one: frame index, counter, paused
\* flag and hold target are left as they were.
C24_DirectionChangeTouchesNothingElse ==
    [][/\ (EnableBackwardsPlayback \/ ToggleBackwardsPlayback)
            => UNCHANGED << frame_index, frame_counter, is_paused,
                            held_frame >>
       /\ ToggleBackwardsPlayback
            => is_playing_backwards' = ~is_playing_backwards
       /\ is_playing_backwards' # is_playing_backwards
            => UNCHANGED << frame_index, frame_counter, is_paused,
                            held_frame >>]_vars

\* C24 witness: an unpaused Animation plays backwards and is in the middle of
\* frame 1, the latest call not being an update().
C24_Witness ==
    /\ is_playing_backwards
    /\ ~is_paused
    /\ ~ever_armed
    /\ frame_index = 1
    /\ frame_counter = 1
    /\ ticks = 0

ArmedFrame(k) ==
    IF k >= 0 THEN k
    ELSE IF is_playing_backwards THEN 0 ELSE num_of_frames - 1

\* C30: after hold_frame(k) with 0 <= k < N or k negative on an unpaused
\* Animation that then receives update() calls only, the Animation is
\* eventually paused at the armed frame with the target cleared.
C30_HoldEventuallyPauses ==
    \A k \in HoldArgs :
        (/\ AllDurationsPositive
         /\ held_frame = Some(k)
         /\ ~is_paused
         /\ k < num_of_frames)
            ~> (is_paused /\ held_frame = None /\ frame_index = ArmedFrame(k))

\* The sheet after surf has been drawn once onto each of the frames from index
\* down to 0, at x within the frame.
RECURSIVE DrawnOnEveryFrame(_, _, _, _, _)
DrawnOnEveryFrame(sheet, surf, x, frame_width, index) ==
    LET drawn_on == Blit(sheet, surf, x + index * frame_width, 0, surf.width)
    IN  IF index = 0 THEN drawn_on
        ELSE DrawnOnEveryFrame(drawn_on, surf, x, frame_width, index - 1)

\* C28: Animation.blit(surf, (x, y)) draws surf once onto every frame, on
\* frame i at (x + i * frame width, y), and returns the region drawn onto on
\* frame 0.
C28_BlitDrawsOnEveryFrame ==
    [][(built = "yes" /\ sheet_op'.name = "blit") =>
        \A surf \in BlitSources :
            /\ image'[1] = DrawnOnEveryFrame(image[1], surf, sheet_op'.arg,
                                             rect_width, num_of_frames - 1)
            /\ returned' = Some(BlitRect(image[1], surf, sheet_op'.arg))]_vars

\* C29: the sheet of a constructed Animation is as wide as one frame times
\* the number of frames, and the region of every frame lies inside it.
C29_FramesTileTheSheet ==
    built = "yes" =>
        /\ image[1].width = rect_width * num_of_frames
        /\ \A index \in 0..(num_of_frames - 1) :
              /\ index * rect_width >= 0
              /\ (index + 1) * rect_width <= image[1].width

\* C26: draw_rect() of a bound Graphic returns the Rect whose top-left corner
\* is the entity's position plus the Graphic's offset and whose size is the
\* Graphic's; offset moves the offset by its arguments, set_position puts it
\* at its arguments, and a coordinate set_position is not given stays.
C26_DrawRectIsEntityPlusOffset ==
    /\ []((graphic_op.name = "draw_rect" /\ graphic_bound)
            => /\ ~draw_raised
               /\ drawn = Some(Rect(entity_x + rect_x, entity_y + rect_y,
                                    source.width, source.height)))
    /\ [][/\ (graphic_op'.name = "set_position") =>
               (/\ (graphic_op'.x = None => rect_x' = rect_x)
                /\ (graphic_op'.y = None => rect_y' = rect_y)
                /\ ((graphic_op'.x # None /\ graphic_op'.x[1] % 2 = 0)
                       => 2 * rect_x' = graphic_op'.x[1])
                /\ ((graphic_op'.y # None /\ graphic_op'.y[1] % 2 = 0)
                       => 2 * rect_y' = graphic_op'.y[1]))
          /\ (graphic_op'.name = "offset") =>
               (/\ (graphic_op'.x[1] % 2 = 0
                       => 2 * rect_x' = 2 * rect_x + graphic_op'.x[1])
                /\ (graphic_op'.y[1] % 2 = 0
                       => 2 * rect_y' = 2 * rect_y + graphic_op'.y[1]))
          /\ (graphic_op'.name \in { "move_entity", "bind", "draw_rect" }) =>
               UNCHANGED << rect_x, rect_y >>]_vars

\* C26 witness: draw_rect() has been called on a Graphic four pixels wide
\* that is one pixel left of and two below its entity, the entity being at
\* (1, -1).
C26_Witness ==
    /\ graphic_op.name = "draw_rect"
    /\ graphic_bound
    /\ source.width = MaxWidth
    /\ entity_x = 1
    /\ entity_y = -1
    /\ rect_x = -1
    /\ rect_y = 2
    /\ drawn = Some(Rect(0, 1, MaxWidth, 2))

\* C25: every Animation, of the class itself or of a class derived from it,
\* that is in an entity's list and has no later Graphic or Animation bound
\* after it is what the entity's attribute graphic refers to.
C25_AnimationRegistersAsGraphic ==
    \A e \in Entities :
        \A i \in 1..Len(components[e]) :
            (/\ IsAnimationKind(ClassOf(components[e][i]))
             /\ \A j \in (i + 1)..Len(components[e]) :
                    ClassOf(components[e][j]) = "Component")
                => attrs[e]["graphic"] = Some(components[e][i])

C32_CenterMovesEntity ==
    (center_call.made /\ graphic_bound) =>
        LET c == center_call.container
        IN  /\ ~center_call.raised
            /\ IF IsHorizontal(center_call.axis)
               THEN entity_x + rect_x = c.x + (c.width - rect_width) \div 2
               ELSE entity_x = center_call.before.x
            /\ IF IsVertical(center_call.axis)
               THEN entity_y + rect_y = c.y + (c.height - rect_height) \div 2
               ELSE entity_y = center_call.before.y
            /\ rect_x = center_call.before.width
            /\ rect_y = center_call.before.height

\* C33: in entity.py Component() returns a component whose entity is unset,
\* and Entity(x, y, c1, ..., ck) returns an Entity whose components list is
\* c1, ..., ck in order, each with its entity set to the new Entity.
C33_LegacyConstructionBinds ==
    /\ legacy_made # "no" => legacy_made = "yes"
    /\ legacy_built # "no" =>
        /\ legacy_built = "yes"
        /\ Len(legacy_components) >= Len(legacy_args.components)
        /\ \A i \in 1..Len(legacy_args.components) :
              /\ legacy_components[i] = ComponentArg(legacy_args.components[i])
              /\ legacy_entity[legacy_args.components[i]] = Some("e")

\* The pixels of a Rect, and whether one lies on a destination.
RectPixels(rect) ==
    (rect.x..(rect.x + rect.width - 1)) \X (rect.y..(rect.y + rect.height - 1))

OnDestination(pixel, destination) ==
    /\ pixel[1] \in 0..(destination.width - 1)
    /\ pixel[2] \in 0..(destination.height - 1)

\* C34: in graphics.py is_outside() returns True exactly when no pixel of the
\* image is on the destination, and is_contained() exactly when every pixel
\* is.
C34_BoundsTestsAreExact ==
    /\ legacy_query.name = "is_outside" =>
          (legacy_query.result <=>
              \A pixel \in RectPixels(legacy_rect) :
                  ~OnDestination(pixel, legacy_destination))
    /\ legacy_query.name = "is_contained" =>
          (legacy_query.result <=>
              \A pixel \in RectPixels(legacy_rect) :
                  OnDestination(pixel, legacy_destination))

=============================================================================
